---------------------------- MODULE Spec2Model ----------------------------
(***************************************************************************)
(* A state-machine model of RubberBandStretcher::Impl (src/StretcherImpl.cpp), *)
(* the stretch orchestrator of the Rubber Band library: sizing, configure  *)
(* and reconfigure, the offline study pass, the process/consume loop, the  *)
(* per-channel workers of threaded mode, reset and the destructor.         *)
(*                                                                         *)
(* Ratios are doubles in the source; here they are exact rationals         *)
(* <<numerator, denominator>>.  A ring buffer's content is kept            *)
(* run-length encoded: a run <<s, n>> is n consecutive samples, the        *)
(* samples s, s+1, ... of the caller's stream when s >= 0 and n zeros      *)
(* (the centring pre-fill) when s = Zeros.                                 *)
(***************************************************************************)
EXTENDS Integers, Sequences, FiniteSets, TLC

(***************************************************************************)
(* Program constants.                                                      *)
(***************************************************************************)
m_defaultIncrement == 256

m_defaultWindowSize == 2048

BaseRate == 48000

MaxOutputIncrement == 1024

SquashIncrementLimit == 512

LongStretchWindow == 8192

Headroom == 16

(***************************************************************************)
(* Bounds of the model.                                                    *)
(***************************************************************************)
\* public calls (study, process, reset, setters) in one behaviour
MaxCalls == 5

(***************************************************************************)
(* Arithmetic on integers and rationals.                                   *)
(***************************************************************************)
Max(a, b) == IF a >= b THEN a ELSE b

Min(a, b) == IF a <= b THEN a ELSE b

\* floor(n / d) and ceil(n / d) for n >= 0, d > 0
FloorDiv(n, d) == n \div d

CeilDiv(n, d) == (n + d - 1) \div d

RatMul(a, b) == <<a[1] * b[1], a[2] * b[2]>>

RatEq(a, b) == a[1] * b[2] = b[1] * a[2]

RatLess(a, b) == a[1] * b[2] < b[1] * a[2]

One == <<1, 1>>

RECURSIVE BitLength(_)
BitLength(v) == IF v = 0 THEN 0 ELSE 1 + BitLength(v \div 2)

RECURSIVE Pow2(_)
Pow2(k) == IF k = 0 THEN 1 ELSE 2 * Pow2(k - 1)

\* value & (value - 1) is zero exactly for zero and the powers of two
IsPow2(v) == v >= 1 /\ Pow2(BitLength(v) - 1) = v

roundUp(value) ==
    IF value = 0 \/ IsPow2(value) THEN value ELSE Pow2(BitLength(value))

\* the int INT_MIN, which is -2^31
IntMin == (-Pow2(30)) - Pow2(30)

\* value = 1 << bits: the shift is made on an int 32 bits wide and its
\* result stored in a size_t 64 bits wide.  A size_t at or above 2^63 is
\* written by its two's-complement reading, so a negative number n stands
\* for 2^64 + n.  The shift of 1 by 31 does not fit a positive int: where
\* it wraps it gives INT_MIN, which the store extends by its sign.
ShiftLeftOne(bits) == IF bits < 31 THEN {Pow2(bits)} ELSE {IntMin}

\* roundUp on every value below 2^31: the values it may return
roundUpOutcomes(value) ==
    IF value = 0 \/ IsPow2(value) THEN {value}
    ELSE ShiftLeftOne(BitLength(value))


(***************************************************************************)
(* Sizing: calculateSizes.                                                 *)
(***************************************************************************)
\* int(m * rateMultiple), rateMultiple = sampleRate / 48000 clamped to >= 1
TimesRateMultiple(m, sampleRate) ==
    IF sampleRate < BaseRate THEN m ELSE (m * sampleRate) \div BaseRate

\* the constructor's baseWindowSize, given the window options
BaseWindowSizeFor(sampleRate, options) ==
    LET base == roundUp(TimesRateMultiple(m_defaultWindowSize, sampleRate))
    IN  IF "WindowShort" \in options /\ "WindowLong" \in options THEN base
        ELSE IF "WindowShort" \in options THEN base \div 2
        ELSE IF "WindowLong" \in options THEN base * 2
        ELSE base

\* realtime stretch: while (outputIncrement > 1024 && inputIncrement > 1)
\*   { inputIncrement /= 2; outputIncrement = lrint(ceil(inputIncrement * r)); }
RECURSIVE HalveInputIncrement(_, _, _)
HalveInputIncrement(inc, out, r) ==
    IF out > MaxOutputIncrement /\ inc > 1
    THEN HalveInputIncrement(inc \div 2, CeilDiv((inc \div 2) * r[1], r[2]), r)
    ELSE [inc |-> inc, out |-> out]

\* offline stretch: while (outputIncrement > 1024 && inputIncrement > 1)
\*   { outputIncrement /= 2; inputIncrement = int(outputIncrement / r); }
RECURSIVE HalveOutputIncrement(_, _, _)
HalveOutputIncrement(inc, out, r) ==
    IF out > MaxOutputIncrement /\ inc > 1
    THEN HalveOutputIncrement(((out \div 2) * r[2]) \div r[1], out \div 2, r)
    ELSE [inc |-> inc, out |-> out]

\* while (inputIncrement >= 512) inputIncrement /= 2;
RECURSIVE HalveBelowLimit(_)
HalveBelowLimit(inc) ==
    IF inc >= SquashIncrementLimit THEN HalveBelowLimit(inc \div 2) ELSE inc

\* if (r > 5) while (windowSize < 8192) windowSize *= 2;
RECURSIVE GrowWindow(_)
GrowWindow(w) == IF w < LongStretchWindow THEN GrowWindow(w * 2) ELSE w

\* the loop of lines 355-358 left after its first pass
FitExpectedDurationOnce(inc, expected) ==
    IF inc * 4 > expected /\ inc > 1 THEN inc \div 2 ELSE inc

\* while (inputIncrement * 4 > m_expectedInputDuration && inputIncrement > 1)
\*   inputIncrement /= 2;
RECURSIVE FitExpectedDuration(_, _)
FitExpectedDuration(inc, expected) ==
    IF inc * 4 > expected /\ inc > 1
    THEN FitExpectedDuration(inc \div 2, expected)
    ELSE inc

\* the squashing branches (r < 1), from the starting input increment
SquashSizes(inc, base, r) ==
    LET out == FloorDiv(inc * r[1], r[2])
    IN  IF out < 1
        THEN LET inc2 == roundUp(CeilDiv(r[2], r[1]))
             IN  [inc |-> inc2, out |-> 1, win |-> inc2 * 4]
        ELSE [inc |-> inc, out |-> out, win |-> base]

\* the tail of the stretching branches with outputIncrement * 6 not rounded
StretchWindowNoRoundUp(h, base, r) ==
    LET w == Max(base, h.out * 6)
    IN  [inc |-> h.inc, out |-> h.out,
         win |-> IF RatLess(<<5, 1>>, r) THEN GrowWindow(w) ELSE w]

\* the tail shared by the stretching branches (r >= 1)
StretchWindow(h, base, r) ==
    LET w == Max(base, roundUp(h.out * 6))
    IN  [inc |-> h.inc, out |-> h.out,
         win |-> IF RatLess(<<5, 1>>, r) THEN GrowWindow(w) ELSE w]

calculateSizes(realtime, threaded, sampleRate, base, timeRatio, pitchScale, expected, maxProcessSize) ==
    LET r  == RatMul(timeRatio, pitchScale)
        s0 == IF realtime
              THEN LET inc == roundUp(TimesRateMultiple(m_defaultIncrement, sampleRate))
                   IN  IF RatLess(r, One)
                       THEN SquashSizes(inc, base, r)
                       ELSE StretchWindow(
                              HalveInputIncrement(inc, CeilDiv(inc * r[1], r[2]), r),
                              base, r)
              ELSE IF RatLess(r, One)
                   THEN SquashSizes(HalveBelowLimit(base \div 4), base, r)
                   ELSE LET out == base \div 6
                        IN  StretchWindow(
                              HalveOutputIncrement((out * r[2]) \div r[1], out, r),
                              base, r)
        inc1 == IF expected > 0 THEN FitExpectedDuration(s0.inc, expected)
                ELSE s0.inc
        mps  == IF s0.win > maxProcessSize THEN s0.win ELSE maxProcessSize
        ob   == Max(CeilDiv(mps * pitchScale[2], pitchScale[1]),
                    IF RatLess(One, timeRatio)
                    THEN CeilDiv(s0.win * 2 * timeRatio[1], timeRatio[2])
                    ELSE s0.win * 2)
    IN  [windowSize     |-> s0.win,
         increment      |-> inc1,
         maxProcessSize |-> mps,
         outbufSize     |-> IF realtime \/ threaded THEN ob * Headroom ELSE ob]

(***************************************************************************)
(* RingBuffer<float>: a bounded FIFO.  data is the run-length encoded      *)
(* content, oldest first; size is the capacity; overrun counts the samples *)
(* a write was asked to store beyond the space there was, which are lost.  *)
(***************************************************************************)
Zeros == -1

RECURSIVE RunsLength(_)
RunsLength(runs) ==
    IF runs = <<>> THEN 0 ELSE runs[1][2] + RunsLength(Tail(runs))

\* runs followed by the n samples s, s+1, ... (or n zeros), adjacent runs merged
AppendRun(runs, s, n) ==
    IF n = 0 THEN runs
    ELSE IF runs = <<>> THEN <<<<s, n>>>>
    ELSE LET last == runs[Len(runs)]
         IN  IF (s = Zeros /\ last[1] = Zeros)
                \/ (s # Zeros /\ last[1] # Zeros /\ last[1] + last[2] = s)
             THEN [runs EXCEPT ![Len(runs)] = <<last[1], last[2] + n>>]
             ELSE Append(runs, <<s, n>>)

\* the first n samples of runs
RECURSIVE TakeRuns(_, _)
TakeRuns(runs, n) ==
    IF n = 0 \/ runs = <<>> THEN <<>>
    ELSE IF runs[1][2] <= n
         THEN <<runs[1]>> \o TakeRuns(Tail(runs), n - runs[1][2])
         ELSE <<<<runs[1][1], n>>>>

\* runs without its first n samples
RECURSIVE DropRuns(_, _)
DropRuns(runs, n) ==
    IF n = 0 \/ runs = <<>> THEN runs
    ELSE IF runs[1][2] <= n THEN DropRuns(Tail(runs), n - runs[1][2])
         ELSE <<<<IF runs[1][1] = Zeros THEN Zeros ELSE runs[1][1] + n,
                  runs[1][2] - n>>>> \o Tail(runs)

NewRingBuffer(n) == [data |-> <<>>, size |-> n, overrun |-> 0]

getReadSpace(rb) == RunsLength(rb.data)

getWriteSpace(rb) == rb.size - getReadSpace(rb)

\* write(source, n): the n samples starting at stream position s
RingWrite(rb, s, n) ==
    [rb EXCEPT !.data = AppendRun(@, s, Min(n, getWriteSpace(rb))),
               !.overrun = @ + (n - Min(n, getWriteSpace(rb)))]

\* zero(n): n zeros, as if written
RingZero(rb, n) ==
    [rb EXCEPT !.data = AppendRun(@, Zeros, Min(n, getWriteSpace(rb)))]

\* peek(destination, n): the samples read, without consuming them
RingPeek(rb, n) == TakeRuns(rb.data, Min(n, getReadSpace(rb)))

RingSkip(rb, n) == [rb EXCEPT !.data = DropRuns(@, Min(n, getReadSpace(rb)))]

RingReset(rb) == [rb EXCEPT !.data = <<>>, !.overrun = 0]

\* resized(n): a ring of capacity n with the same content
RingResized(rb, n) == [rb EXCEPT !.size = n]

(***************************************************************************)
(* ChannelData: the per-channel state.                                     *)
(***************************************************************************)
SetMax(S) == CHOOSE x \in S : \A y \in S : y <= x

\* ChannelData(windowSizes, initialWindowSize, outbufSize)
NewChannelData(windowSizes, initialWindowSize, outbufSize) ==
    LET maxSize == SetMax(windowSizes \cup {initialWindowSize})
    IN  [inbuf           |-> NewRingBuffer(maxSize),
         outbufSize      |-> Max(outbufSize, maxSize),
         windowSize      |-> initialWindowSize,
         inCount         |-> 0,
         inputSize       |-> -1,
         draining        |-> FALSE,
         chunkCount      |-> 0,
         resampler       |-> FALSE,
         resamplebufSize |-> 0,
         written         |-> <<>>,
         hung            |-> FALSE]

\* ChannelData::reset()
ChannelReset(cd) ==
    [cd EXCEPT !.inbuf = RingReset(@), !.inCount = 0, !.inputSize = -1,
               !.draining = FALSE, !.chunkCount = 0, !.written = <<>>]

\* ChannelData::setWindowSize(windowSize)
ChannelSetWindowSize(cd, windowSize) ==
    [cd EXCEPT !.windowSize = windowSize,
               !.inbuf = IF @.size >= windowSize THEN @
                         ELSE RingResized(@, windowSize)]

\* ChannelData::setOutbufSize(outbufSize)
ChannelSetOutbufSize(cd, outbufSize) ==
    [cd EXCEPT !.outbufSize = Max(@, outbufSize)]

(***************************************************************************)
(* Collaborators: the detection curves and the stretch calculator.  A      *)
(* detection-function value is kept as the data it is computed from: the   *)
(* window analysed and, for the percussive curve, the window before it.    *)
(***************************************************************************)
NoCurve == [kind |-> "none", windowSize |-> 0, prev |-> <<>>]

NewCurve(kind, windowSize) ==
    [kind |-> kind, windowSize |-> windowSize, prev |-> <<>>]

\* AudioCurve::reset()
CurveReset(curve) == [curve EXCEPT !.prev = <<>>]

\* AudioCurve::setWindowSize(n)
CurveSetWindowSize(curve, n) == [curve EXCEPT !.windowSize = n, !.prev = <<>>]

\* AudioCurve::process(mag, increment): the value returned
CurveValue(curve, window) ==
    IF curve.kind = "Percussive" THEN <<curve.prev, window>>
    ELSE IF curve.kind = "HighFrequency" THEN <<window>>
    ELSE <<>>

\* AudioCurve::process(mag, increment): the curve afterwards
CurveAfter(curve, window) ==
    IF curve.kind = "Percussive" THEN [curve EXCEPT !.prev = window] ELSE curve

NewStretchCalculator(increment, useHardPeaks) ==
    [increment |-> increment, useHardPeaks |-> useHardPeaks]

\* StretchCalculator::calculate: one output increment per analysis chunk,
\* adding up to round(inputDuration * ratio)
Calculate(ratio, inputDuration, phaseResetDf, stretchDf) ==
    LET n     == Len(phaseResetDf)
        total == (2 * inputDuration * ratio[1] + ratio[2]) \div (2 * ratio[2])
    IN  [i \in 1..n |-> (total * i) \div n - (total * (i - 1)) \div n]

(***************************************************************************)
(* The stretcher object.  Its fields carry the source's names; trace is    *)
(* the set of things the handler now running (or last run) did, and is     *)
(* not a field of the program.                                             *)
(***************************************************************************)
Channels(s) == 0 .. (s.m_channels - 1)

Did(s, e) == [s EXCEPT !.trace = @ \cup {e}]

getEffectiveRatio(s) == RatMul(s.m_timeRatio, s.m_pitchScale)

\* the four sizes, stored
SetSizes(s, z) ==
    [s EXCEPT !.m_windowSize = z.windowSize, !.m_increment = z.increment,
              !.m_maxProcessSize = z.maxProcessSize,
              !.m_outbufSize = z.outbufSize]

\* calculateSizes() on the object
ApplySizes(s) ==
    SetSizes(s, calculateSizes(s.m_realtime, s.m_threaded, s.m_sampleRate,
                               s.m_baseWindowSize, s.m_timeRatio, s.m_pitchScale,
                               s.m_expectedInputDuration, s.m_maxProcessSize))

\* a worker whose channel data is deleted under it is left with a dangling
\* reference
DeleteChannelData(s) ==
    [s EXCEPT !.m_threadSet =
        [i \in DOMAIN @ |-> IF @[i].running THEN [@[i] EXCEPT !.cdLive = FALSE]
                            ELSE @[i]]]

\* rbs of configure(): lrintf(ceil((increment * timeRatio * 2) / pitchScale))
ResampleBufSize(s) ==
    CeilDiv(s.m_increment * s.m_timeRatio[1] * 2 * s.m_pitchScale[2],
            s.m_timeRatio[2] * s.m_pitchScale[1])

calculateStretch(s) ==
    LET increments == Calculate(getEffectiveRatio(s), s.m_inputDuration,
                                s.m_phaseResetDf, s.m_stretchDf)
    IN  [s EXCEPT !.m_outputIncrements =
            IF @ = <<>> THEN increments ELSE @ \o increments]

\* the set windowSizes without the realtime sizes
ConfigureWindowSizesCurrentOnly(s) == {s.m_windowSize}

\* configure(): the set windowSizes
ConfigureWindowSizes(s) ==
    (IF s.m_realtime
     THEN {s.m_baseWindowSize, s.m_baseWindowSize * 2, s.m_baseWindowSize * 4}
     ELSE {}) \cup {s.m_windowSize}

\* configure(): if (windowSizeChanged) the windows are made
ConfigureWindows(s, windowSizeChanged) ==
    IF windowSizeChanged
    THEN [s EXCEPT !.m_windows = @ \cup ConfigureWindowSizes(s),
                   !.m_window = s.m_windowSize]
    ELSE s

\* configure(): if (windowSizeChanged || outbufSizeChanged) the channel data
\* are deleted and made anew
ConfigureChannelData(s, changed) ==
    IF changed
    THEN [DeleteChannelData(s) EXCEPT !.m_channelData =
            [c \in Channels(s) |->
               NewChannelData(ConfigureWindowSizes(s), s.m_windowSize,
                              s.m_outbufSize)]]
    ELSE s

\* configure(): if (!m_realtime && windowSizeChanged) the study FFT
ConfigureStudyFFT(s, windowSizeChanged) ==
    IF ~s.m_realtime /\ windowSizeChanged
    THEN [s EXCEPT !.m_studyFFT = s.m_windowSize]
    ELSE s

\* configure(): if (m_pitchScale != 1.0 || m_realtime) the resamplers
ConfigureResamplers(s) ==
    IF ~RatEq(s.m_pitchScale, One) \/ s.m_realtime
    THEN [s EXCEPT !.m_channelData =
            [c \in Channels(s) |->
               IF @[c].resampler THEN @[c]
               ELSE [@[c] EXCEPT
                       !.resampler = TRUE,
                       !.resamplebufSize =
                           Max(ResampleBufSize(s), s.m_increment * 16)]]]
    ELSE s

\* configure(): the curves and the calculator are made anew
ConfigureCurves(s) ==
    [s EXCEPT
       !.m_phaseResetAudioCurve = NewCurve("Percussive", s.m_windowSize),
       !.m_stretchAudioCurve =
           IF s.m_realtime THEN @
           ELSE IF "StretchPrecise" \notin s.m_options
                THEN NewCurve("HighFrequency", s.m_windowSize)
                ELSE NewCurve("Constant", s.m_windowSize),
       !.m_stretchCalculator =
           NewStretchCalculator(s.m_increment,
                                "TransientsSmooth" \notin s.m_options),
       !.m_inputDuration = 0]

\* configure() with no zeros given to the input rings
ConfigurePrefillNone(s) ==
    IF s.m_realtime THEN s
    ELSE [s EXCEPT !.m_channelData = [c \in Channels(s) |-> ChannelReset(@[c])]]

\* configure(): if (!m_realtime) every channel is reset and its inbuf is
\* given half a window of zeros
ConfigurePrefill(s) ==
    IF s.m_realtime THEN s
    ELSE [s EXCEPT !.m_channelData =
            [c \in Channels(s) |->
               [ChannelReset(@[c]) EXCEPT
                  !.inbuf = RingZero(@, s.m_windowSize \div 2)]]]

\* configure() after calculateSizes(), given what changed
ConfigureChanged(s, windowSizeChanged, outbufSizeChanged) ==
    ConfigurePrefill(
      ConfigureCurves(
        ConfigureResamplers(
          ConfigureStudyFFT(
            ConfigureChannelData(
              ConfigureWindows(s, windowSizeChanged),
              windowSizeChanged \/ outbufSizeChanged),
            windowSizeChanged))))

\* configure() after calculateSizes(), given the sizes before it
ConfigureSized(s, prevWindowSize, prevOutbufSize) ==
    ConfigureChanged(s, prevWindowSize # s.m_windowSize,
                     prevOutbufSize # s.m_outbufSize)

configure(s) ==
    ConfigureSized(ApplySizes(Did(s, "configure")),
                   IF s.m_windows = {} THEN 0 ELSE s.m_windowSize,
                   IF s.m_windows = {} THEN 0 ELSE s.m_outbufSize)

\* the offline part of reconfigure() run in realtime mode too
ReconfigureOfflineInRealtimeToo(s) ==
    IF s.m_mode = "Studying"
    THEN configure([calculateStretch(s) EXCEPT
                      !.m_phaseResetDf = <<>>,
                      !.m_stretchDf = <<>>,
                      !.m_inputDuration = 0])
    ELSE configure(s)

\* reconfigure(): if (!m_realtime) the schedule so far is calculated, the
\* curves are cleared (when studying) and configure() runs
ReconfigureOffline(s) ==
    IF s.m_realtime THEN s
    ELSE IF s.m_mode = "Studying"
         THEN configure([calculateStretch(s) EXCEPT
                           !.m_phaseResetDf = <<>>,
                           !.m_stretchDf = <<>>,
                           !.m_inputDuration = 0])
         ELSE configure(s)

\* reconfigure(): if (m_windowSize != prevWindowSize) the window is found or
\* made and every channel is told its size
ReconfigureWindow(s, windowSizeChanged) ==
    IF windowSizeChanged
    THEN [(IF s.m_windowSize \in s.m_windows THEN s
           ELSE Did(s, "window allocation")) EXCEPT
            !.m_windows = @ \cup {s.m_windowSize},
            !.m_window = s.m_windowSize,
            !.m_channelData =
                [c \in Channels(s) |->
                   ChannelSetWindowSize(@[c], s.m_windowSize)]]
    ELSE s

\* reconfigure(): if (m_outbufSize != prevOutbufSize)
ReconfigureOutbuf(s, prevOutbufSize) ==
    IF s.m_outbufSize # prevOutbufSize
    THEN [s EXCEPT !.m_channelData =
            [c \in Channels(s) |->
               ChannelSetOutbufSize(@[c], s.m_outbufSize)]]
    ELSE s

\* reconfigure(): if (m_pitchScale != 1.0) the missing resamplers are made
ReconfigureResamplers(s) ==
    IF ~RatEq(s.m_pitchScale, One)
       /\ \E c \in Channels(s) : ~s.m_channelData[c].resampler
    THEN [Did(s, "resampler construction") EXCEPT !.m_channelData =
            [c \in Channels(s) |->
               IF @[c].resampler THEN @[c]
               ELSE [@[c] EXCEPT
                       !.resampler = TRUE,
                       !.resamplebufSize = ResampleBufSize(s)]]]
    ELSE s

\* reconfigure(): if (m_windowSize != prevWindowSize) the phase reset curve
\* is told the size
ReconfigureCurve(s, windowSizeChanged) ==
    IF windowSizeChanged
    THEN [s EXCEPT !.m_phaseResetAudioCurve =
                       CurveSetWindowSize(@, s.m_windowSize)]
    ELSE s

\* reconfigure() after calculateSizes(), given the sizes before it
ReconfigureSized(s, prevWindowSize, prevOutbufSize) ==
    ReconfigureCurve(
      ReconfigureResamplers(
        ReconfigureOutbuf(
          ReconfigureWindow(s, s.m_windowSize # prevWindowSize),
          prevOutbufSize)),
      s.m_windowSize # prevWindowSize)

\* reconfigure() from the sizes as they are after its offline part
ReconfigureFrom(s) ==
    ReconfigureSized(ApplySizes(s), s.m_windowSize, s.m_outbufSize)

reconfigure(s) == ReconfigureFrom(ReconfigureOffline(Did(s, "reconfigure")))


\* Impl::Impl(stretcher, sampleRate, channels, options, initialTimeRatio,
\*            initialPitchScale); multiprocessor stands for
\* Thread::threadingAvailable() && system_is_multiprocessor()
Construct(sampleRate, channels, options, initialTimeRatio, initialPitchScale, multiprocessor) ==
    LET windowOption == "WindowShort" \in options \/ "WindowLong" \in options
        base     == BaseWindowSizeFor(sampleRate, options)
        realtime == "ProcessRealTime" \in options
    IN  configure(
          [m_sampleRate            |-> sampleRate,
           m_channels              |-> channels,
           m_timeRatio             |-> initialTimeRatio,
           m_pitchScale            |-> initialPitchScale,
           m_windowSize            |-> IF windowOption THEN base
                                       ELSE m_defaultWindowSize,
           m_increment             |-> m_defaultIncrement,
           m_outbufSize            |-> IF windowOption THEN base * 2
                                       ELSE m_defaultWindowSize * 2,
           m_maxProcessSize        |-> IF windowOption THEN base
                                       ELSE m_defaultWindowSize,
           m_expectedInputDuration |-> 0,
           m_threaded              |-> channels > 1 /\ ~realtime
                                       /\ "ThreadingNone" \notin options
                                       /\ multiprocessor,
           m_realtime              |-> realtime,
           m_options               |-> IF realtime
                                       THEN options \cup {"StretchPrecise"}
                                       ELSE options,
           m_mode                  |-> "JustCreated",
           m_windows               |-> {},
           m_window                |-> 0,
           m_studyFFT              |-> 0,
           m_inputDuration         |-> 0,
           m_phaseResetDf          |-> <<>>,
           m_stretchDf             |-> <<>>,
           m_outputIncrements      |-> <<>>,
           m_phaseResetAudioCurve  |-> NoCurve,
           m_stretchAudioCurve     |-> NoCurve,
           m_stretchCalculator     |-> NewStretchCalculator(0, FALSE),
           m_baseWindowSize        |-> base,
           m_channelData           |-> <<>>,
           m_threadSet             |-> <<>>,
           trace                   |-> {}])

(***************************************************************************)
(* study: the offline analysis pass.  pos is the position in the caller's  *)
(* stream of the first sample of this call's block.  A loop of the source  *)
(* that could not end is recorded as "hang".                               *)
(***************************************************************************)
\* the inner while: analyse a chunk while the ring holds a window (or, on
\* the final call, half a window)
RECURSIVE StudyChunks(_, _)
StudyChunks(s, final) ==
    LET inbuf == s.m_channelData[0].inbuf
        rs    == getReadSpace(inbuf)
    IN  IF rs >= s.m_windowSize \/ (final /\ rs >= s.m_windowSize \div 2)
        THEN IF Min(s.m_increment, rs) = 0 THEN Did(s, "hang")
             ELSE LET window == RingPeek(inbuf, s.m_windowSize)
                  IN  StudyChunks(
                        [s EXCEPT
                           !.m_phaseResetDf =
                               Append(@, CurveValue(s.m_phaseResetAudioCurve, window)),
                           !.m_phaseResetAudioCurve = CurveAfter(@, window),
                           !.m_stretchDf =
                               Append(@, CurveValue(s.m_stretchAudioCurve, window)),
                           !.m_stretchAudioCurve = CurveAfter(@, window),
                           !.m_inputDuration = @ + s.m_increment,
                           !.m_channelData[0].inbuf = RingSkip(@, s.m_increment)],
                        final)
        ELSE s

\* the outer while (consumed < samples)
RECURSIVE StudyWrite(_, _, _, _, _)
StudyWrite(s, pos, samples, final, consumed) ==
    IF consumed >= samples \/ "hang" \in s.trace THEN s
    ELSE LET writable == Min(getWriteSpace(s.m_channelData[0].inbuf),
                             samples - consumed)
             s1 == IF writable = 0 THEN Did(s, "writable == 0")
                   ELSE [s EXCEPT !.m_channelData[0].inbuf =
                                     RingWrite(@, pos + consumed, writable)]
             s2 == StudyChunks(s1, final)
         IN  IF writable = 0
                /\ s2.m_channelData[0].inbuf = s.m_channelData[0].inbuf
             THEN Did(s2, "hang")
             ELSE StudyWrite(s2, pos, samples, final, consumed + writable)

\* if (final): the samples left in the ring are counted, and the half window
\* of zeros discounted
StudyFinal(s, final) ==
    IF ~final THEN s
    ELSE [s EXCEPT !.m_inputDuration =
            IF @ + getReadSpace(s.m_channelData[0].inbuf) > s.m_windowSize \div 2
            THEN @ + getReadSpace(s.m_channelData[0].inbuf)
                   - s.m_windowSize \div 2
            ELSE @ + getReadSpace(s.m_channelData[0].inbuf)]

\* study past its checks
StudyAccepted(s, pos, samples, final) ==
    StudyFinal(StudyWrite([s EXCEPT !.m_mode = "Studying"],
                          pos, samples, final, 0),
               final)

\* study with no check of the mode
studyInAnyMode(s, pos, samples, final) ==
    IF s.m_realtime THEN Did(s, "rejected")
    ELSE StudyAccepted(s, pos, samples, final)

\* study with no check for realtime mode
studyInRealtimeToo(s, pos, samples, final) ==
    IF s.m_mode \in {"Processing", "Finished"} THEN Did(s, "rejected")
    ELSE StudyAccepted(s, pos, samples, final)

study(s, pos, samples, final) ==
    IF s.m_realtime THEN Did(s, "rejected")
    ELSE IF s.m_mode \in {"Processing", "Finished"} THEN Did(s, "rejected")
    ELSE StudyAccepted(s, pos, samples, final)

(***************************************************************************)
(* process: feeding the input rings and driving the channels.              *)
(***************************************************************************)
\* consumeChannel(c, input, samples): pos is the stream position of input[0].
\* Returns the channel data afterwards and the count consumed.  written is
\* the record of everything consumeChannel wrote to this channel's ring.
RECURSIVE ConsumeLoop(_, _, _, _)
ConsumeLoop(cd, pos, samples, consumed) ==
    IF consumed >= samples THEN [cd |-> cd, consumed |-> samples]
    ELSE LET writable == Min(getWriteSpace(cd.inbuf), samples - consumed)
         IN  IF writable = 0 THEN [cd |-> cd, consumed |-> consumed]
             ELSE ConsumeLoop(
                    [cd EXCEPT !.inbuf = RingWrite(@, pos + consumed, writable),
                               !.written = AppendRun(@, pos + consumed, writable),
                               !.inCount = @ + writable],
                    pos, samples, consumed + writable)

\* consumeChannel writing the whole block whatever the ring's write space
consumeChannelNoSpaceCheck(cd, pos, samples) ==
    [cd |-> [cd EXCEPT !.inbuf = RingWrite(@, pos, samples),
                       !.written = AppendRun(@, pos, samples),
                       !.inCount = @ + samples],
     consumed |-> samples]

consumeChannel(cd, pos, samples) == ConsumeLoop(cd, pos, samples, 0)

\* testInbufReadSpace(c): whether channel data cd has a chunk to process
testInbufReadSpace(s, cd) ==
    LET rs == getReadSpace(cd.inbuf)
    IN  ~(rs < s.m_windowSize /\ (cd.inputSize = -1 \/ rs = 0))

\* one chunk of channel data cd through the synthesiser
ProcessChunk(s, cd) ==
    LET rs == getReadSpace(cd.inbuf)
    IN  [cd EXCEPT !.inbuf = RingSkip(@, s.m_increment),
                   !.draining = @ \/ rs < s.m_windowSize,
                   !.chunkCount = @ + 1]

\* processChunks(c): chunks until the ring no longer holds one
RECURSIVE ChunksLoop(_, _)
ChunksLoop(s, cd) ==
    IF ~testInbufReadSpace(s, cd) THEN cd
    ELSE IF s.m_increment = 0 THEN [cd EXCEPT !.hung = TRUE]
    ELSE ChunksLoop(s, ProcessChunk(s, cd))

processChunks(s, c) == [s EXCEPT !.m_channelData[c] = ChunksLoop(s, @)]

\* processOneChunk(): all channels one chunk, in step
processOneChunk(s) ==
    IF \A c \in Channels(s) : testInbufReadSpace(s, s.m_channelData[c])
    THEN [s EXCEPT !.m_channelData =
            [c \in Channels(s) |-> ProcessChunk(s, @[c])]]
    ELSE s

\* the first process call of a run: lines 879-908
StartProcessing(s) ==
    LET s1 == IF s.m_mode = "Studying" THEN calculateStretch(s) ELSE s
        s2 == [s1 EXCEPT !.m_channelData =
                 [c \in Channels(s1) |->
                    [ChannelReset(@[c]) EXCEPT
                       !.inbuf = RingZero(@, s1.m_windowSize \div 2)]]]
        s3 == IF s2.m_threaded
              THEN [Did(s2, "threads created") EXCEPT !.m_threadSet =
                      @ \o [i \in 1..s2.m_channels |->
                              [channel |-> i - 1, running |-> TRUE,
                               cdLive |-> TRUE]]]
              ELSE s2
    IN  [s3 EXCEPT !.m_mode = "Processing"]

\* process with no check for the final chunk having been processed
processEntryAfterFinished(s) ==
    IF s.m_mode \in {"JustCreated", "Studying"} THEN StartProcessing(s) ELSE s

\* process up to its loop: the rejection after the final chunk, and the
\* first call of a run
processEntry(s) ==
    IF s.m_mode = "Finished" THEN Did(s, "rejected")
    ELSE IF s.m_mode \in {"JustCreated", "Studying"} THEN StartProcessing(s)
    ELSE s

\* the body of the channel loop without its call of processChunks
FeedChannelNoChunks(s, c, pos, samples, final, consumed) ==
    [s |-> [s EXCEPT !.m_channelData[c] =
                consumeChannel(@, pos + consumed[c], samples - consumed[c]).cd],
     n |-> consumed[c]
           + consumeChannel(s.m_channelData[c], pos + consumed[c],
                            samples - consumed[c]).consumed]

\* one pass of the body of while (!allConsumed), for a call process(input,
\* samples, final) whose block starts at stream position pos; consumed is
\* the map of the per-channel counters.  Returns the object and the
\* counters afterwards.
FeedChannel(s, c, pos, samples, final, consumed) ==
    LET r   == consumeChannel(s.m_channelData[c], pos + consumed[c],
                              samples - consumed[c])
        n   == consumed[c] + r.consumed
        cd1 == IF n >= samples /\ final
               THEN [r.cd EXCEPT !.inputSize = r.cd.inCount] ELSE r.cd
        s1  == [s EXCEPT !.m_channelData[c] = cd1]
    IN  [s |-> IF ~s.m_threaded /\ ~s.m_realtime THEN processChunks(s1, c)
               ELSE s1,
         n |-> n]

RECURSIVE FeedChannels(_, _, _, _, _, _)
FeedChannels(s, c, pos, samples, final, consumed) ==
    IF c >= s.m_channels THEN [s |-> s, consumed |-> consumed]
    ELSE LET f == FeedChannel(s, c, pos, samples, final, consumed)
         IN  FeedChannels(f.s, c + 1, pos, samples, final,
                          [consumed EXCEPT ![c] = f.n])

\* a pass whose processOneChunk() is called inside the channel loop as
\* well, once the first channel is fed
ProcessPassChunkInChannelLoop(s, pos, samples, final, consumed) ==
    LET f0 == FeedChannel(s, 0, pos, samples, final, consumed)
        s0 == IF s.m_realtime THEN processOneChunk(f0.s) ELSE f0.s
        f  == FeedChannels(s0, 1, pos, samples, final,
                           [consumed EXCEPT ![0] = f0.n])
    IN  [s |-> IF s.m_realtime THEN processOneChunk(f.s) ELSE f.s,
         consumed |-> f.consumed]

ProcessPass(s, pos, samples, final, consumed) ==
    LET f == FeedChannels(s, 0, pos, samples, final, consumed)
    IN  [s |-> IF s.m_realtime THEN processOneChunk(f.s) ELSE f.s,
         consumed |-> f.consumed]

(***************************************************************************)
(* getSamplesRequired.                                                     *)
(***************************************************************************)
\* reqdHere with the read space returned in place of what is missing
ReqdHereReadSpace(cd, windowSize) ==
    IF getReadSpace(cd.inbuf) < windowSize /\ ~cd.draining
    THEN IF cd.inputSize = -1 THEN getReadSpace(cd.inbuf)
         ELSE IF getReadSpace(cd.inbuf) = 0 THEN windowSize
         ELSE 0
    ELSE 0

\* reqdHere of one channel, as the loop body leaves it
ReqdHere(cd, windowSize) ==
    IF getReadSpace(cd.inbuf) < windowSize /\ ~cd.draining
    THEN IF cd.inputSize = -1 THEN windowSize - getReadSpace(cd.inbuf)
         ELSE IF getReadSpace(cd.inbuf) = 0 THEN windowSize
         ELSE 0
    ELSE 0

\* reqd: the greatest reqdHere of the channels
SamplesRequired(channelData, windowSize) ==
    SetMax({0} \cup {ReqdHere(channelData[c], windowSize) : c \in DOMAIN channelData})

getSamplesRequired(s) == SamplesRequired(s.m_channelData, s.m_windowSize)

(***************************************************************************)
(* reset and the setters.                                                  *)
(***************************************************************************)
reset(s) ==
    [DeleteChannelData(s) EXCEPT
       !.m_channelData =
           [c \in Channels(s) |->
              NewChannelData({}, s.m_windowSize, s.m_outbufSize)],
       !.m_mode = "JustCreated",
       !.m_phaseResetAudioCurve = IF @.kind = "none" THEN @ ELSE CurveReset(@),
       !.m_stretchAudioCurve = IF @.kind = "none" THEN @ ELSE CurveReset(@),
       !.m_inputDuration = 0]

\* setTimeRatio with no comparison of the ratio with the current one
setTimeRatioAlways(s, ratio) ==
    IF ~s.m_realtime /\ s.m_mode \in {"Studying", "Processing"}
    THEN Did(s, "rejected")
    ELSE reconfigure([s EXCEPT !.m_timeRatio = ratio])

setTimeRatio(s, ratio) ==
    IF ~s.m_realtime /\ s.m_mode \in {"Studying", "Processing"}
    THEN Did(s, "rejected")
    ELSE IF RatEq(ratio, s.m_timeRatio) THEN s
    ELSE reconfigure([s EXCEPT !.m_timeRatio = ratio])

\* setPitchScale with no check of the mode
setPitchScaleInAnyMode(s, fs) ==
    IF RatEq(fs, s.m_pitchScale) THEN s
    ELSE reconfigure([s EXCEPT !.m_pitchScale = fs])

setPitchScale(s, fs) ==
    IF ~s.m_realtime /\ s.m_mode \in {"Studying", "Processing"}
    THEN Did(s, "rejected")
    ELSE IF RatEq(fs, s.m_pitchScale) THEN s
    ELSE reconfigure([s EXCEPT !.m_pitchScale = fs])

setExpectedInputDuration(s, samples) ==
    IF samples = s.m_expectedInputDuration THEN s
    ELSE reconfigure([s EXCEPT !.m_expectedInputDuration = samples])

\* setMaxProcessSize with no comparison of the size with the current one
setMaxProcessSizeAlways(s, samples) ==
    reconfigure([s EXCEPT !.m_maxProcessSize = samples])

setMaxProcessSize(s, samples) ==
    IF samples <= s.m_maxProcessSize THEN s
    ELSE reconfigure([s EXCEPT !.m_maxProcessSize = samples])

(***************************************************************************)
(* The state machine.  impl is the stretcher object; pc is where the       *)
(* caller's thread is ("idle" between public calls, "process" inside the   *)
(* loop of process, whose arguments and counters are in call, with the     *)
(* channel data as they were when the loop was entered); lastCall is the   *)
(* public call made last; pc is "destroyed" once the destructor has run,   *)
(* and "hang" in a loop of process that cannot end.  pass is the parity of *)
(* the count of passes of that loop.                                       *)
(* studyPos and procPos are the caller's positions in the stream it feeds  *)
(* to study and to process in the current run.                             *)
(***************************************************************************)
VARIABLES impl, pc, call, lastCall, calls, studyPos, procPos, pass,
          runLog, seen, firstRun

\* the record of runs kept for comparing a run with the run before reset():
\* runLog is the accepted study and process calls of the current run, seen
\* is what the first process call of the current run found (empty before
\* it), firstRun is runLog and seen of the run ended by the first reset().
\* None of it is read by the program.
replay == <<runLog, seen, firstRun>>

vars == <<impl, pc, call, lastCall, calls, studyPos, procPos, pass, replay>>

SampleRates == {48000}

ChannelCounts == {1, 2}

OptionSets == {{}, {"ProcessRealTime"}}

Ratios == {<<1, 1>>, <<3, 2>>}

Scales == {<<1, 1>>, <<2, 1>>}

StudyBlocks == {3000}

ProcessBlocks == {3000}

ProcessSizes == {1024, 4096}

ExpectedDurations == {0, 600}

NoCall ==
    [pos |-> 0, samples |-> 0, final |-> FALSE, consumed |-> <<>>,
     before |-> <<>>]

Begin(s) == [s EXCEPT !.trace = {}]

Constructed(sampleRate, channels, options, multiprocessor) ==
    /\ impl = Begin(Construct(sampleRate, channels, options,
                              <<1, 1>>, <<1, 1>>, multiprocessor))
    /\ pc = "idle"
    /\ call = NoCall
    /\ lastCall = "construct"
    /\ calls = 0
    /\ studyPos = 0
    /\ procPos = 0
    /\ pass = 0
    /\ runLog = <<>>
    /\ seen = <<>>
    /\ firstRun = <<>>

\* what the first process call of a run finds: the curves, the duration and
\* the schedule, and the ratios and options in force
Snapshot(s) ==
    [m_phaseResetDf     |-> s.m_phaseResetDf,
     m_stretchDf        |-> s.m_stretchDf,
     m_inputDuration    |-> s.m_inputDuration,
     m_outputIncrements |-> s.m_outputIncrements,
     m_timeRatio        |-> s.m_timeRatio,
     m_pitchScale       |-> s.m_pitchScale,
     m_options          |-> s.m_options]

\* a public call by the caller's thread, which makes one call at a time
PublicCall(op) ==
    /\ pc = "idle"
    /\ calls < MaxCalls
    /\ calls' = calls + 1
    /\ lastCall' = op

Study(samples, final) ==
    /\ PublicCall("study")
    /\ impl' = study(Begin(impl), studyPos, samples, final)
    /\ "hang" \notin impl'.trace
    /\ IF "rejected" \in impl'.trace
       THEN UNCHANGED <<studyPos, runLog>>
       ELSE /\ studyPos' = studyPos + samples
            /\ runLog' = Append(runLog, <<"study", samples, final>>)
    /\ UNCHANGED <<pc, call, procPos, pass, seen, firstRun>>

\* process up to the loop: lines 874-915
Process(samples, final) ==
    /\ PublicCall("process")
    /\ impl' = processEntry(Begin(impl))
    /\ IF "rejected" \in impl'.trace
       THEN UNCHANGED <<pc, call, runLog>>
       ELSE /\ pc' = "process"
            /\ call' = [pos |-> procPos, samples |-> samples, final |-> final,
                        consumed |-> [c \in Channels(impl) |-> 0],
                        before |-> impl'.m_channelData]
            /\ runLog' = Append(runLog, <<"process", samples, final>>)
    /\ seen' = IF impl.m_mode \in {"JustCreated", "Studying"}
               THEN <<Snapshot(impl')>> ELSE seen
    /\ UNCHANGED <<studyPos, procPos, pass, firstRun>>

\* one pass of while (!allConsumed) and, when all is consumed, the return:
\* lines 917-981.  A pass in which processChunks cannot end leaves the
\* caller's thread in it ("hang").
ProcessLoop ==
    /\ pc = "process"
    /\ pass' = 1 - pass
    /\ LET r == ProcessPass(impl, call.pos, call.samples, call.final,
                            call.consumed)
       IN  IF \E c \in Channels(impl) : r.s.m_channelData[c].hung
           THEN /\ pc' = "hang"
                /\ impl' = r.s
                /\ UNCHANGED <<call, procPos>>
           ELSE IF \A c \in Channels(impl) : r.consumed[c] >= call.samples
           THEN /\ impl' = IF call.final
                           THEN [r.s EXCEPT !.m_mode = "Finished"] ELSE r.s
                /\ pc' = "idle"
                /\ call' = NoCall
                /\ procPos' = procPos + call.samples
           ELSE /\ impl' = r.s
                /\ call' = [call EXCEPT !.consumed = r.consumed]
                /\ UNCHANGED <<pc, procPos>>
    /\ UNCHANGED <<lastCall, calls, studyPos, replay>>

\* the caller's thread, in the loop of process, makes a pass
LoopPass == pc = "process" /\ pass' = 1 - pass

\* a worker thread of threaded mode drains its channel's input ring, and
\* ends once the input is complete and drained.  A worker whose channel
\* data has been deleted reads freed memory: it may end, or find the
\* channel data allocated since in its place.
WorkerDrains(i) ==
    /\ pc # "destroyed"
    /\ impl.m_threadSet[i].running
    /\ LET c  == impl.m_threadSet[i].channel
           s1 == processChunks(impl, c)
           cd == s1.m_channelData[c]
           done == cd.inputSize # -1 /\ getReadSpace(cd.inbuf) = 0
       IN  /\ ~cd.hung
           /\ \/ /\ s1 # impl \/ done
                 /\ impl' = [s1 EXCEPT !.m_threadSet[i].running = ~done]
              \/ /\ ~impl.m_threadSet[i].cdLive
                 /\ impl' = [impl EXCEPT !.m_threadSet[i].running = FALSE]

Worker(i) ==
    /\ WorkerDrains(i)
    /\ UNCHANGED <<pc, call, lastCall, calls, studyPos, procPos, pass, replay>>

\* a worker that, having consumed, signals m_spaceAvailable: the caller's
\* thread, if it waits on the condition, is woken; if it does not, the
\* signal is lost
WorkerSignals(i) ==
    /\ WorkerDrains(i)
    /\ pc' = IF pc = "wait" THEN "process" ELSE pc
    /\ UNCHANGED <<call, lastCall, calls, studyPos, procPos, pass, replay>>

\* one pass of while (!allConsumed) in threaded mode, up to
\* m_spaceAvailable.lock(): the channels are fed and m_dataAvailable is
\* signalled
ThreadedPass ==
    /\ pc = "process"
    /\ impl.m_threaded
    /\ pass' = 1 - pass
    /\ LET r == ProcessPass(impl, call.pos, call.samples, call.final,
                            call.consumed)
       IN  /\ impl' = Did(r.s, "m_dataAvailable.signal")
           /\ call' = [call EXCEPT !.consumed = r.consumed]
    /\ pc' = "locked"
    /\ UNCHANGED <<lastCall, calls, studyPos, procPos, replay>>

\* if (!allConsumed) m_spaceAvailable.wait(500); once all is consumed the
\* loop ends and process returns
ThreadedWait ==
    /\ pc = "locked"
    /\ IF \A c \in Channels(impl) : call.consumed[c] >= call.samples
       THEN /\ impl' = IF call.final
                       THEN [impl EXCEPT !.m_mode = "Finished"] ELSE impl
            /\ pc' = "idle"
            /\ call' = NoCall
            /\ procPos' = procPos + call.samples
       ELSE /\ impl' = Did(impl, "m_spaceAvailable.wait")
            /\ pc' = "wait"
            /\ UNCHANGED <<call, procPos>>
    /\ UNCHANGED <<lastCall, calls, studyPos, pass, replay>>

\* m_spaceAvailable.wait(500) with no signal received: the wait ends when
\* its time is up, and the loop goes round
WaitNeverTimesOut ==
    /\ FALSE
    /\ UNCHANGED vars

WaitTimesOut ==
    /\ pc = "wait"
    /\ pc' = "process"
    /\ UNCHANGED <<impl, call, lastCall, calls, studyPos, procPos, pass, replay>>

Reset ==
    /\ PublicCall("reset")
    /\ impl' = reset(Begin(impl))
    /\ studyPos' = 0
    /\ procPos' = 0
    /\ firstRun' = IF firstRun = <<>>
                   THEN <<[log |-> runLog, seen |-> seen]>> ELSE firstRun
    /\ runLog' = <<>>
    /\ seen' = <<>>
    /\ UNCHANGED <<pc, call, pass>>

SetTimeRatio(ratio) ==
    /\ PublicCall("setTimeRatio")
    /\ impl' = setTimeRatio(Begin(impl), ratio)
    /\ UNCHANGED <<pc, call, studyPos, procPos, pass, replay>>

SetPitchScale(fs) ==
    /\ PublicCall("setPitchScale")
    /\ impl' = setPitchScale(Begin(impl), fs)
    /\ UNCHANGED <<pc, call, studyPos, procPos, pass, replay>>

SetExpectedInputDuration(samples) ==
    /\ PublicCall("setExpectedInputDuration")
    /\ impl' = setExpectedInputDuration(Begin(impl), samples)
    /\ UNCHANGED <<pc, call, studyPos, procPos, pass, replay>>

SetMaxProcessSize(samples) ==
    /\ PublicCall("setMaxProcessSize")
    /\ impl' = setMaxProcessSize(Begin(impl), samples)
    /\ UNCHANGED <<pc, call, studyPos, procPos, pass, replay>>

\* ~Impl(): in threaded mode wait() returns once the worker has ended; the
\* channel data, curves, calculator, FFT and windows are deleted, and
\* nothing of the object is left to use
Destroyed(s) ==
    [s EXCEPT !.m_threadSet = <<>>, !.m_channelData = <<>>,
              !.m_phaseResetAudioCurve = NoCurve,
              !.m_stretchAudioCurve = NoCurve,
              !.m_stretchCalculator = NewStretchCalculator(0, FALSE),
              !.m_studyFFT = 0, !.m_windows = {}, !.m_window = 0,
              !.m_phaseResetDf = <<>>, !.m_stretchDf = <<>>,
              !.m_outputIncrements = <<>>, !.m_inputDuration = 0]

Destroy ==
    /\ pc = "idle"
    /\ impl.m_threaded =>
           \A i \in DOMAIN impl.m_threadSet : ~impl.m_threadSet[i].running
    /\ impl' = Destroyed(Begin(impl))
    /\ pc' = "destroyed"
    /\ lastCall' = "destroy"
    /\ calls' = 0
    /\ studyPos' = 0
    /\ procPos' = 0
    /\ pass' = 0
    /\ runLog' = <<>>
    /\ seen' = <<>>
    /\ firstRun' = <<>>
    /\ UNCHANGED call

Setters ==
    \/ \E ratio \in Ratios : SetTimeRatio(ratio)
    \/ \E fs \in Scales : SetPitchScale(fs)
    \/ \E samples \in ExpectedDurations : SetExpectedInputDuration(samples)
    \/ \E samples \in ProcessSizes : SetMaxProcessSize(samples)

(***************************************************************************)
(* Spec: every public operation, on the stretchers that run in the         *)
(* caller's thread (offline and realtime, one and two channels).           *)
(***************************************************************************)
Init ==
    \E sampleRate \in SampleRates, channels \in ChannelCounts,
       options \in OptionSets :
        Constructed(sampleRate, channels, options, FALSE)

Next ==
    \/ \E samples \in StudyBlocks, final \in BOOLEAN : Study(samples, final)
    \/ \E samples \in ProcessBlocks, final \in BOOLEAN : Process(samples, final)
    \/ ProcessLoop
    \/ Reset
    \/ Setters
    \/ Destroy

Spec == Init /\ [][Next]_vars

(***************************************************************************)
(* SpecThreaded: the threaded offline stretcher (two channels on a         *)
(* multiprocessor host) with its worker threads.                           *)
(***************************************************************************)
InitThreaded == Constructed(48000, 2, {}, TRUE)

NextThreaded ==
    \/ \E samples \in ProcessBlocks, final \in BOOLEAN : Process(samples, final)
    \/ ProcessLoop
    \/ \E i \in DOMAIN impl.m_threadSet : Worker(i)
    \/ Reset
    \/ Destroy

SpecThreaded == InitThreaded /\ [][NextThreaded]_vars

(***************************************************************************)
(* SpecWaits: the threaded offline stretcher with the two conditions of    *)
(* its process loop.  The caller's thread keeps running, the wait on       *)
(* m_spaceAvailable ends when its time is up, and each worker, while it    *)
(* has a chunk to process, comes to process it.                            *)
(***************************************************************************)
\* process calls in one behaviour of SpecWaits
MaxBlocks == 2

WaitBlocks == {1, 3000, 5000}

NextWaits ==
    \/ \E samples \in WaitBlocks, final \in BOOLEAN :
          calls < MaxBlocks /\ Process(samples, final)
    \/ ThreadedPass
    \/ ThreadedWait
    \/ WaitTimesOut
    \/ \E i \in DOMAIN impl.m_threadSet : WorkerSignals(i)

SpecWaits ==
    /\ InitThreaded
    /\ [][NextWaits]_vars
    /\ WF_pass(LoopPass)
    /\ WF_vars(ThreadedWait)
    /\ WF_vars(WaitTimesOut)
    /\ \A i \in 1..2 : WF_vars(i \in DOMAIN impl.m_threadSet /\ WorkerSignals(i))


(***************************************************************************)
(* SpecOffline: the offline stretcher in the caller's thread, fed blocks   *)
(* smaller and larger than its input ring; the caller's thread, once in    *)
(* the loop of process, keeps running.                                     *)
(***************************************************************************)
BigBlocks == {1, 3000, 20480}

InitOffline ==
    \E channels \in ChannelCounts : Constructed(48000, channels, {}, FALSE)

NextOffline ==
    \/ \E samples \in BigBlocks, final \in BOOLEAN : Process(samples, final)
    \/ ProcessLoop
    \/ \E ratio \in Ratios : SetTimeRatio(ratio)
    \/ \E fs \in Scales : SetPitchScale(fs)

SpecOffline == InitOffline /\ [][NextOffline]_vars /\ WF_pass(LoopPass)

(***************************************************************************)
(* SpecRuns: the offline stretcher in the caller's thread, with its ratios *)
(* left as constructed: runs of study and process, and reset() between     *)
(* them.                                                                   *)
(***************************************************************************)
NextRuns ==
    \/ \E samples \in StudyBlocks, final \in BOOLEAN : Study(samples, final)
    \/ \E samples \in ProcessBlocks, final \in BOOLEAN : Process(samples, final)
    \/ ProcessLoop
    \/ Reset

SpecRuns == InitOffline /\ [][NextRuns]_vars

(***************************************************************************)
(* SpecSizes: one-channel stretchers of every window option, offline and   *)
(* realtime, constructed at every pair of ratios of SizeRatios and         *)
(* SizeScales, and their setters: every way calculateSizes is reached.     *)
(***************************************************************************)
\* setter calls in one behaviour of SpecSizes
MaxSettings == 2

SizeRates == {44100, 96000}

WindowOptions == {{}, {"WindowShort"}, {"WindowLong"}}

SizeOptionSets ==
    {window \cup mode : window \in WindowOptions, mode \in {{}, {"ProcessRealTime"}}}

SizeRatios ==
    {<<1, 3000>>, <<1, 600>>, <<1, 300>>, <<1, 2>>, <<1, 1>>, <<3, 2>>, <<6, 1>>, <<400, 1>>}

SizeScales == {<<1, 2>>, <<1, 1>>, <<2, 1>>, <<4, 1>>}

SizeDurations == {0, 2, 600}

ConstructedAt(sampleRate, options, timeRatio, pitchScale) ==
    /\ impl = Begin(Construct(sampleRate, 1, options, timeRatio, pitchScale, FALSE))
    /\ pc = "idle"
    /\ call = NoCall
    /\ lastCall = "construct"
    /\ calls = 0
    /\ studyPos = 0
    /\ procPos = 0
    /\ pass = 0
    /\ runLog = <<>>
    /\ seen = <<>>
    /\ firstRun = <<>>

InitSizes ==
    \E sampleRate \in SizeRates, options \in SizeOptionSets,
       timeRatio \in SizeRatios, pitchScale \in SizeScales :
        ConstructedAt(sampleRate, options, timeRatio, pitchScale)

NextSizes ==
    \/ \E ratio \in SizeRatios : calls < MaxSettings /\ SetTimeRatio(ratio)
    \/ \E fs \in SizeScales : calls < MaxSettings /\ SetPitchScale(fs)
    \/ \E samples \in SizeDurations :
          calls < MaxSettings /\ SetExpectedInputDuration(samples)

SpecSizes == InitSizes /\ [][NextSizes]_vars

(***************************************************************************)
(* SpecStudy: the offline study of one stream, given in blocks of the      *)
(* lengths StudyLengths (empty ones, and ones beyond the input ring,       *)
(* included) and ended by the first final call.                            *)
(***************************************************************************)
StudyLengths == {0, 1, 341, 3000, 5000}

\* the last accepted call of the run was a final study
StudyEnded ==
    /\ runLog # <<>>
    /\ runLog[Len(runLog)][1] = "study"
    /\ runLog[Len(runLog)][3]

InitStudy == \E ratio \in Ratios : ConstructedAt(48000, {}, ratio, One)

NextStudy ==
    \E samples \in StudyLengths, final \in BOOLEAN :
        ~StudyEnded /\ Study(samples, final)

SpecStudy == InitStudy /\ [][NextStudy]_vars

(***************************************************************************)
(* Properties.                                                             *)
(***************************************************************************)
\* the fields of the program, without the record of what the handler did
Fields(s) == [s EXCEPT !.trace = {}]

\* this step is the public call op, from its entry
IsCall(op) == calls' = calls + 1 /\ lastCall' = op

\* this step is the return of process
ProcessReturns == pc = "process" /\ pc' = "idle"

ModeRank(mode) ==
    CASE mode = "JustCreated" -> 0
      [] mode = "Studying"    -> 1
      [] mode = "Processing"  -> 2
      [] mode = "Finished"    -> 3

\* C1: no step other than reset() moves the mode backwards in the order
\* JustCreated < Studying < Processing < Finished; an accepted study leaves
\* the mode Studying and changes it only from JustCreated or Studying; an
\* accepted process leaves the mode Processing on entry to its loop; and
\* process returns with the mode Finished if final and Processing if not.
C1_ModeNeverMovesBack ==
    [][/\ ~IsCall("reset") =>
            ModeRank(impl'.m_mode) >= ModeRank(impl.m_mode)
       /\ (IsCall("study") /\ "rejected" \notin impl'.trace) =>
            /\ impl.m_mode \in {"JustCreated", "Studying"}
            /\ impl'.m_mode = "Studying"
       /\ (IsCall("study") /\ "rejected" \in impl'.trace) =>
            impl'.m_mode = impl.m_mode
       /\ (IsCall("process") /\ "rejected" \notin impl'.trace) =>
            /\ impl.m_mode \in {"JustCreated", "Studying", "Processing"}
            /\ impl'.m_mode = "Processing"
       /\ ProcessReturns =>
            impl'.m_mode = IF call.final THEN "Finished" ELSE "Processing"
      ]_vars

\* a run that studied, then processed its final block
C1_Witness ==
    /\ impl.m_mode = "Finished"
    /\ pc = "idle"
    /\ \E i \in DOMAIN runLog : runLog[i][1] = "study"

\* C2: a study call made in realtime mode, or while the mode is Processing
\* or Finished, is rejected and changes no field of the stretcher: not the
\* mode, the curves, the input duration or channel 0's input ring.
C2_RejectedStudyChangesNothing ==
    [][(IsCall("study")
          /\ (impl.m_realtime \/ impl.m_mode \in {"Processing", "Finished"})) =>
            /\ "rejected" \in impl'.trace
            /\ Fields(impl') = Fields(impl)
      ]_vars

\* study was called after processing began, offline, and was rejected
C2_Witness ==
    /\ lastCall = "study"
    /\ "rejected" \in impl.trace
    /\ ~impl.m_realtime
    /\ impl.m_mode = "Processing"
    /\ getReadSpace(impl.m_channelData[0].inbuf) > 0

\* C3: a process call made while the mode is Finished is rejected and
\* changes no field of the stretcher (mode, input rings, inCount, inputSize,
\* chunk counts, workers), and the loop of process is not entered.
C3_ProcessAfterFinishedRejected ==
    [][(IsCall("process") /\ impl.m_mode = "Finished") =>
            /\ "rejected" \in impl'.trace
            /\ Fields(impl') = Fields(impl)
            /\ pc' = "idle"
            /\ call' = call
      ]_vars

\* process was called after the final block, and was rejected
C3_Witness ==
    /\ lastCall = "process"
    /\ pc = "idle"
    /\ "rejected" \in impl.trace
    /\ impl.m_mode = "Finished"

\* C4: in offline mode, setTimeRatio and setPitchScale called while the mode
\* is Studying or Processing are rejected and change no field of the
\* stretcher (ratios, sizes, curves, input duration, channel data).
C4_OfflineRatioChangeRejected ==
    [][((IsCall("setTimeRatio") \/ IsCall("setPitchScale"))
          /\ ~impl.m_realtime /\ impl.m_mode \in {"Studying", "Processing"}) =>
            /\ "rejected" \in impl'.trace
            /\ Fields(impl') = Fields(impl)
      ]_vars

\* setPitchScale was called while studying, with curves collected, and was
\* rejected
C4_Witness ==
    /\ lastCall = "setPitchScale"
    /\ "rejected" \in impl.trace
    /\ impl.m_mode = "Studying"
    /\ impl.m_phaseResetDf # <<>>

\* C5: setTimeRatio called with the current time ratio changes no field of
\* the stretcher and runs neither reconfigure nor configure, in every mode,
\* realtime or offline.
C5_SameTimeRatioIsNoOp ==
    [][\A ratio \in Ratios :
          (SetTimeRatio(ratio) /\ RatEq(ratio, impl.m_timeRatio)) =>
            /\ Fields(impl') = Fields(impl)
            /\ impl'.trace \cap {"reconfigure", "configure"} = {}
      ]_vars

\* setTimeRatio returned having done nothing, in realtime mode while
\* processing, with a ratio set earlier
C5_Witness ==
    /\ lastCall = "setTimeRatio"
    /\ impl.trace = {}
    /\ impl.m_realtime
    /\ impl.m_mode = "Processing"
    /\ ~RatEq(impl.m_timeRatio, One)

\* C6: no step decreases maxProcessSize; after every step maxProcessSize is
\* at least windowSize; and setMaxProcessSize(n) with n <= maxProcessSize
\* changes no field and runs no reconfigure.
C6_MaxProcessSizeNeverDecreases ==
    [][/\ impl'.m_maxProcessSize >= impl.m_maxProcessSize
       /\ impl'.m_maxProcessSize >= impl'.m_windowSize
       /\ \A samples \in ProcessSizes :
            (SetMaxProcessSize(samples) /\ samples <= impl.m_maxProcessSize) =>
              /\ Fields(impl') = Fields(impl)
              /\ impl'.trace = {}
      ]_vars

\* setMaxProcessSize returned having done nothing, after the size was grown
\* beyond the window
C6_Witness ==
    /\ lastCall = "setMaxProcessSize"
    /\ impl.trace = {}
    /\ impl.m_maxProcessSize > impl.m_windowSize

\* C7: when an accepted process(input, samples, final) returns, every
\* channel's inCount has grown by samples and what was written to its input
\* ring in this call is input[0 .. samples-1] in order, each sample once;
\* and in every pass of the loop consumeChannel writes no more than the
\* ring's write space, and the count it returns is the count it wrote.
C7_ProcessWritesEverySampleOnce ==
    [][/\ ProcessReturns =>
            \A c \in Channels(impl) :
              /\ impl'.m_channelData[c].inCount
                   = call.before[c].inCount + call.samples
              /\ impl'.m_channelData[c].written
                   = AppendRun(call.before[c].written, call.pos, call.samples)
       /\ pc = "process" =>
            \A c \in Channels(impl) :
              /\ impl'.m_channelData[c].inbuf.overrun = 0
              /\ impl'.m_channelData[c].inCount - impl.m_channelData[c].inCount
                   <= getWriteSpace(impl.m_channelData[c].inbuf)
              /\ impl'.m_channelData[c].inCount - impl.m_channelData[c].inCount
                   = (IF pc' = "idle" THEN call.samples ELSE call'.consumed[c])
                     - call.consumed[c]
      ]_vars

\* process returned from a block larger than the input ring, which took
\* more than one pass
C7_Witness ==
    /\ lastCall = "process"
    /\ pc = "idle"
    /\ impl.m_mode = "Processing"
    /\ \A c \in Channels(impl) :
         /\ impl.m_channelData[c].inCount = 3000
         /\ impl.m_channelData[c].inbuf.size < 3000
         /\ impl.m_channelData[c].written = <<<<0, 3000>>>>

\* C8: in offline single-threaded mode, every pass of the loop of process
\* either returns or consumes more input on some channel and loses none on
\* any; and a process call that has entered its loop returns.
C8_OfflineProcessReturns ==
    /\ [][pc = "process" =>
            \/ pc' = "idle"
            \/ /\ \E c \in Channels(impl) :
                    call'.consumed[c] > call.consumed[c]
               /\ \A c \in Channels(impl) :
                    call'.consumed[c] >= call.consumed[c]
         ]_vars
    /\ (pc = "process") ~> (pc = "idle")

\* process returned from a block ten times maxProcessSize
C8_Witness ==
    /\ lastCall = "process"
    /\ pc = "idle"
    /\ procPos = 20480
    /\ impl.m_maxProcessSize = 2048
    /\ \A c \in Channels(impl) : impl.m_channelData[c].inCount = 20480

\* the calls of a run up to and including its first process call
RECURSIVE UpToFirstProcess(_)
UpToFirstProcess(log) ==
    IF log = <<>> THEN <<>>
    ELSE IF log[1][1] = "process" THEN <<log[1]>>
    ELSE <<log[1]>> \o UpToFirstProcess(Tail(log))

\* C9: in offline single-threaded mode, when a run after reset() has made
\* the same study calls and the same first process call as the run before
\* reset(), that process call finds the same phase-reset and stretch curves,
\* the same input duration and the same schedule of output increments as
\* the first run's did, under the same ratios and options.
C9_ResetReplaysRun ==
    (/\ firstRun # <<>>
     /\ seen # <<>>
     /\ firstRun[1].seen # <<>>
     /\ UpToFirstProcess(runLog) = UpToFirstProcess(firstRun[1].log)) =>
        seen[1] = firstRun[1].seen[1]

\* C10: in threaded offline mode no channel's data is deleted or replaced
\* while a worker thread for that channel is still running: every running
\* worker's channel data is the one it was started on.
C10_NoTeardownUnderRunningWorker ==
    \A i \in DOMAIN impl.m_threadSet :
        impl.m_threadSet[i].running => impl.m_threadSet[i].cdLive

C12_IncrementAtLeastOne == impl.m_increment >= 1

\* the effective ratio is at least 1/1024
NotBelowSquashLimit(s) == ~RatLess(getEffectiveRatio(s), <<1, MaxOutputIncrement>>)

\* the effective ratio is at most 1024
NotAboveStretchLimit(s) == ~RatLess(<<MaxOutputIncrement, 1>>, getEffectiveRatio(s))

\* C13: at an effective ratio not below 1/1024, whatever the window option
\* (standard, short or long), baseWindowSize <= windowSize <=
\* 4 * baseWindowSize.
C13_WindowWithinBaseAndFourTimesBase ==
    NotBelowSquashLimit(impl) =>
        /\ impl.m_baseWindowSize <= impl.m_windowSize
        /\ impl.m_windowSize <= 4 * impl.m_baseWindowSize

\* C14 as stated: after setExpectedInputDuration(n) with n > 0, four
\* increments are at most n.
C14_FourIncrementsFitExpectedDuration ==
    (lastCall = "setExpectedInputDuration" /\ impl.m_expectedInputDuration > 0) =>
        impl.m_increment * 4 <= impl.m_expectedInputDuration

\* C14: after setExpectedInputDuration(n) with n > 0, four increments are at
\* most n, or the increment is no more than 1 (as it is whenever n < 4).
C14_FourIncrementsFitOrIncrementIsOne ==
    (lastCall = "setExpectedInputDuration" /\ impl.m_expectedInputDuration > 0) =>
        \/ impl.m_increment * 4 <= impl.m_expectedInputDuration
        \/ impl.m_increment <= 1

\* an offline stretcher at ratio 1 told to expect 600 samples: its increment
\* of 341 is halved twice
C14_Witness ==
    /\ lastCall = "setExpectedInputDuration"
    /\ "reconfigure" \in impl.trace
    /\ ~impl.m_realtime
    /\ impl.m_expectedInputDuration = 600
    /\ RatEq(getEffectiveRatio(impl), One)
    /\ impl.m_baseWindowSize = 2048
    /\ impl.m_increment = 85

\* this step is a step of process: its entry or a pass of its loop
ProcessStep == IsCall("process") \/ pc = "process"

\* no input ring has fewer readable samples after this step than before
RingsNotDrained ==
    \A c \in Channels(impl) :
        getReadSpace(impl'.m_channelData[c].inbuf)
            >= getReadSpace(impl.m_channelData[c].inbuf)

\* every input ring holds a window
RingsHoldWindow(s) ==
    \A c \in DOMAIN s.m_channelData :
        getReadSpace(s.m_channelData[c].inbuf) >= s.m_windowSize

\* C17 as stated: getSamplesRequired() is no greater when a call of process
\* returns than it was when the loop of that call was entered, and is zero
\* when every input ring holds at least windowSize readable samples.
C17_SamplesRequiredNeverRisesOverProcess ==
    [][/\ ProcessReturns =>
            getSamplesRequired(impl')
                <= SamplesRequired(call.before, impl.m_windowSize)
       /\ RingsHoldWindow(impl') => getSamplesRequired(impl') = 0
      ]_vars

\* C17: getSamplesRequired() does not rise over a step of process (its
\* entry or a pass of its loop) that leaves no input ring with fewer
\* readable samples than it had; it is never more than windowSize; and it is
\* zero when every input ring holds at least windowSize readable samples.
C17_SamplesRequiredFallsAsRingsFill ==
    [][/\ (ProcessStep /\ RingsNotDrained) =>
            getSamplesRequired(impl') <= getSamplesRequired(impl)
       /\ getSamplesRequired(impl') <= impl'.m_windowSize
       /\ RingsHoldWindow(impl') => getSamplesRequired(impl') = 0
      ]_vars

\* a realtime stretcher after process of 3000 samples: the rings, which
\* held nothing, hold more than a window and nothing is required
C17_Witness ==
    /\ lastCall = "process"
    /\ pc = "idle"
    /\ impl.m_realtime
    /\ procPos = 3000
    /\ RingsHoldWindow(impl)
    /\ getSamplesRequired(impl) = 0

\* this step is a call of setTimeRatio or setPitchScale
IsRatioChange == IsCall("setTimeRatio") \/ IsCall("setPitchScale")

\* C18 as stated: on a realtime stretcher no change of time ratio or pitch
\* scale makes reconfigure allocate a window.
C18_NoWindowAllocationInRealtime ==
    [][(IsRatioChange /\ impl.m_realtime) =>
           "window allocation" \notin impl'.trace]_vars

\* C18: on a realtime stretcher a change of time ratio or pitch scale makes
\* reconfigure allocate a window (with its warning) exactly when the new
\* windowSize differs from the old and is not in the window cache, which
\* holds baseWindowSize * {1, 2, 4} and every size used before; so no change
\* to a windowSize from baseWindowSize to 4 * baseWindowSize allocates, and
\* with a baseWindowSize of 2048 no change to an effective ratio from 1/1024
\* to 1024 does.
C18_WindowAllocationOnlyOutsideCache ==
    [][(IsRatioChange /\ impl.m_realtime) =>
           /\ {impl.m_baseWindowSize, impl.m_baseWindowSize * 2,
                impl.m_baseWindowSize * 4} \subseteq impl.m_windows
           /\ "window allocation" \in impl'.trace <=>
                  /\ impl'.m_windowSize # impl.m_windowSize
                  /\ impl'.m_windowSize \notin impl.m_windows
           /\ (/\ impl.m_baseWindowSize <= impl'.m_windowSize
               /\ impl'.m_windowSize <= 4 * impl.m_baseWindowSize) =>
                  "window allocation" \notin impl'.trace
           /\ (/\ impl.m_baseWindowSize = m_defaultWindowSize
               /\ NotBelowSquashLimit(impl')
               /\ NotAboveStretchLimit(impl')) =>
                  "window allocation" \notin impl'.trace
      ]_vars

\* a realtime stretcher with the standard window taken from ratio 1 to 3/2:
\* the window goes from 2048 to 4096, which the cache holds
C18_Witness ==
    /\ lastCall = "setTimeRatio"
    /\ impl.m_realtime
    /\ "reconfigure" \in impl.trace
    /\ "window allocation" \notin impl.trace
    /\ RatEq(getEffectiveRatio(impl), <<3, 2>>)
    /\ impl.m_baseWindowSize = 2048
    /\ impl.m_windowSize = 4096
    /\ impl.m_window = 4096
    /\ impl.m_windows = {2048, 4096, 8192}

\* C15 as stated: after a study ended by a final call, of a stream of N
\* samples (studyPos) in all, both curves have ceil(N / increment) + 1
\* entries.
C15_CurvesHaveCeilPlusOneEntries ==
    StudyEnded =>
        /\ Len(impl.m_phaseResetDf) = Len(impl.m_stretchDf)
        /\ Len(impl.m_phaseResetDf) = CeilDiv(studyPos, impl.m_increment) + 1

\* C15: after a study ended by a final call, of a stream of N samples in
\* all, both curves have the same number of entries, which is at most
\* floor(N / increment) + 1, and is floor(N / increment) + 1 when the final
\* call brought at least one sample.
C15_CurvesHaveFloorPlusOneEntries ==
    StudyEnded =>
        /\ Len(impl.m_phaseResetDf) = Len(impl.m_stretchDf)
        /\ Len(impl.m_phaseResetDf) <= FloorDiv(studyPos, impl.m_increment) + 1
        /\ runLog[Len(runLog)][2] > 0 =>
              Len(impl.m_phaseResetDf) = FloorDiv(studyPos, impl.m_increment) + 1

\* 3001 samples studied at increment 341 in two calls, the second final: 9
\* entries in each curve
C15_Witness ==
    /\ StudyEnded
    /\ Len(runLog) = 2
    /\ runLog[2][2] > 0
    /\ studyPos = 3001
    /\ impl.m_increment = 341
    /\ Len(impl.m_phaseResetDf) = 9
    /\ Len(impl.m_stretchDf) = 9

\* C16: after a study ended by a final call, of a stream of N samples in
\* all, N = 0 included, however the stream was split into calls,
\* inputDuration is N.
C16_InputDurationIsStreamLength ==
    StudyEnded => impl.m_inputDuration = studyPos

\* C20: a study ended by a final call, of a stream of N samples in all,
\* appends floor(N / increment) + 1 entries to each curve, however the
\* stream was split into calls and whatever the capacity of the input ring.
C20_ChunkCountIsSamplesOverIncrementPlusOne ==
    StudyEnded =>
        /\ Len(impl.m_phaseResetDf) = FloorDiv(studyPos, impl.m_increment) + 1
        /\ Len(impl.m_stretchDf) = FloorDiv(studyPos, impl.m_increment) + 1

(***************************************************************************)
(* SpecRoundUp: roundUp called on a stretcher with a value from            *)
(* RoundUpValues: the small values, and those about 2^30, the greatest     *)
(* power of two whose double fits an int.                                  *)
(***************************************************************************)
MaxValue == 130

RoundUpValues ==
    (1 .. MaxValue) \cup {Pow2(30) - 1, Pow2(30), Pow2(30) + 1, Pow2(30) + Pow2(29)}

InitRoundUp ==
    \E value \in RoundUpValues :
        /\ impl = Begin(Construct(48000, 1, {}, One, One, FALSE))
        /\ pc = "roundUp"
        /\ call = [value |-> value]
        /\ lastCall = "construct"
        /\ calls = 0
        /\ studyPos = 0
        /\ procPos = 0
        /\ pass = 0
        /\ runLog = <<>>
        /\ seen = <<>>
        /\ firstRun = <<>>

RoundUp ==
    /\ pc = "roundUp"
    /\ \E result \in roundUpOutcomes(call.value) :
           call' = [value |-> call.value, result |-> result]
    /\ pc' = "roundUp returned"
    /\ UNCHANGED <<impl, lastCall, calls, studyPos, procPos, pass, replay>>

NextRoundUp == RoundUp

SpecRoundUp == InitRoundUp /\ [][NextRoundUp]_vars

\* C19: roundUp returns a power of two that is at least its argument v, for
\* every v >= 1: v itself when v is a power of two, and otherwise the next
\* power of two above v, so that half the result is below v when v > 1, and
\* roundUp of the result is the result.
C19_RoundUpIsNextPowerOfTwo ==
    pc = "roundUp returned" =>
        /\ call.result >= 1
        /\ IsPow2(call.result)
        /\ call.result >= call.value
        /\ IsPow2(call.value) => call.result = call.value
        /\ call.value > 1 => call.result \div 2 < call.value
        /\ roundUpOutcomes(call.result) = {call.result}

\* the content of a ring that holds half a window of zeros and nothing else
HalfWindowOfZeros(s) == <<<<Zeros, s.m_windowSize \div 2>>>>

\* the zeros among the samples runs
RECURSIVE ZerosIn(_)
ZerosIn(runs) ==
    IF runs = <<>> THEN 0
    ELSE (IF runs[1][1] = Zeros THEN runs[1][2] ELSE 0) + ZerosIn(Tail(runs))

\* C21: in offline mode, in every run (the first, and each one started by
\* reset()), the first accepted study call finds in the ring it analyses
\* exactly windowSize/2 zeros and nothing else, and the first accepted
\* process call leaves every channel's input ring with exactly
\* windowSize/2 zeros and nothing else before it writes; a later study call
\* adds no zeros and a later process call leaves the rings as they are on
\* entry.
C21_HalfWindowOfZerosOncePerPhase ==
    [][~impl.m_realtime =>
         /\ (IsCall("study") /\ "rejected" \notin impl'.trace
                /\ impl.m_mode = "JustCreated") =>
               impl.m_channelData[0].inbuf.data = HalfWindowOfZeros(impl)
         /\ (IsCall("study") /\ "rejected" \notin impl'.trace
                /\ impl.m_mode = "Studying") =>
               ZerosIn(impl'.m_channelData[0].inbuf.data)
                   <= ZerosIn(impl.m_channelData[0].inbuf.data)
         /\ (IsCall("process") /\ impl.m_mode \in {"JustCreated", "Studying"}) =>
               \A c \in Channels(impl) :
                   impl'.m_channelData[c].inbuf.data = HalfWindowOfZeros(impl')
         /\ (IsCall("process") /\ impl.m_mode = "Processing") =>
               impl'.m_channelData = impl.m_channelData
      ]_vars


\* C22: in offline mode no public call runs configure() once the mode is
\* Processing, so no call but reset() empties a channel's input ring or
\* zeroes its inCount there.
C22_NoConfigureWhileProcessing ==
    [][(~impl.m_realtime /\ impl.m_mode = "Processing" /\ pc = "idle"
          /\ pc' = "idle" /\ ~IsCall("reset")) =>
         /\ "configure" \notin impl'.trace
         /\ \A c \in Channels(impl) :
              impl'.m_channelData[c].inCount >= impl.m_channelData[c].inCount
      ]_vars


\* the caller's thread is inside the loop of process
InProcessLoop == pc \in {"process", "locked", "wait"}

\* C23: in threaded offline mode every pass of the process loop signals
\* m_dataAvailable after its writes, the wait on m_spaceAvailable is entered
\* only with input of some channel still unconsumed, the step of the
\* caller's thread after a wait is another pass of writes, and, with the
\* workers draining their rings and whether or not a signal of
\* m_spaceAvailable is lost, every process call returns.
C23_BoundedWaitAndProcessReturns ==
    /\ [][/\ (pc = "process" /\ pc' = "locked") =>
               "m_dataAvailable.signal" \in impl'.trace
          /\ pc' = "wait" =>
               \E c \in Channels(impl) : call'.consumed[c] < call'.samples
          /\ pc = "wait" => pc' \in {"wait", "process"}
         ]_vars
    /\ InProcessLoop ~> pc = "idle"

\* the caller's thread waits on m_spaceAvailable while no worker has a chunk
\* to process: the signal it waits for was sent before the wait began
C23_Witness ==
    /\ pc = "wait"
    /\ \A i \in DOMAIN impl.m_threadSet :
         ~testInbufReadSpace(impl, impl.m_channelData[impl.m_threadSet[i].channel])


\* C24: in threaded offline mode the thread set holds at most one worker for
\* each channel at every state, and exactly m_channels workers while the
\* mode is Processing.
C24_OneWorkerPerChannel ==
    (impl.m_threaded /\ pc # "destroyed") =>
        /\ \A i, j \in DOMAIN impl.m_threadSet :
             impl.m_threadSet[i].channel = impl.m_threadSet[j].channel => i = j
        /\ impl.m_mode = "Processing" =>
             Len(impl.m_threadSet) = impl.m_channels


\* C25: in realtime mode a call that reaches reconfigure(), in any mode,
\* runs no configure(), leaves the mode, the stretch calculator, the stretch
\* curve, inputDuration and every channel's inCount and inputSize as they
\* are, and leaves the phase reset curve the curve it was, with its state
\* untouched unless the window size changes.
C25_RealtimeReconfigureKeepsStream ==
    [][(impl.m_realtime /\ "reconfigure" \in impl'.trace) =>
         /\ "configure" \notin impl'.trace
         /\ impl'.m_mode = impl.m_mode
         /\ impl'.m_stretchCalculator = impl.m_stretchCalculator
         /\ impl'.m_stretchAudioCurve = impl.m_stretchAudioCurve
         /\ impl'.m_phaseResetAudioCurve.kind = impl.m_phaseResetAudioCurve.kind
         /\ impl'.m_windowSize = impl.m_windowSize =>
                impl'.m_phaseResetAudioCurve = impl.m_phaseResetAudioCurve
         /\ impl'.m_inputDuration = impl.m_inputDuration
         /\ \A c \in Channels(impl) :
              /\ impl'.m_channelData[c].inCount = impl.m_channelData[c].inCount
              /\ impl'.m_channelData[c].inputSize = impl.m_channelData[c].inputSize
      ]_vars

\* a realtime stretcher that has reconfigured while Processing, with input
\* counted, and whose calculator still has the increment it was made with
C25_Witness ==
    /\ impl.m_realtime
    /\ impl.m_mode = "Processing"
    /\ "reconfigure" \in impl.trace
    /\ impl.m_channelData[0].inCount > 0
    /\ impl.m_stretchCalculator.increment # impl.m_increment


\* C26: at every state in which pitchScale is not 1 or the stretcher is
\* realtime, every channel has a resampler, and its resample buffer holds at
\* least max(increment * 16, ceil(increment * timeRatio * 2 / pitchScale))
\* samples for the increment and the ratios of that state.
C26_ResamplerOfSufficientSize ==
    (pc # "destroyed" /\ (~RatEq(impl.m_pitchScale, One) \/ impl.m_realtime)) =>
        \A c \in Channels(impl) :
            /\ impl.m_channelData[c].resampler
            /\ impl.m_channelData[c].resamplebufSize
                   >= Max(impl.m_increment * 16, ResampleBufSize(impl))


\* C27: in realtime mode the channels advance in step: at every state, and
\* so at every call of processOneChunk (which writes no input), all channels
\* have the same inCount, the same count consumed of the block being
\* processed, the same count of chunks processed and the same stream
\* positions in their input rings.
C27_RealtimeChannelsInLockstep ==
    (impl.m_realtime /\ pc # "destroyed") =>
        \A c, d \in Channels(impl) :
            /\ impl.m_channelData[c].inCount = impl.m_channelData[d].inCount
            /\ impl.m_channelData[c].chunkCount = impl.m_channelData[d].chunkCount
            /\ impl.m_channelData[c].inbuf = impl.m_channelData[d].inbuf
            /\ pc = "process" => call.consumed[c] = call.consumed[d]

\* a two-channel realtime stretcher inside a process call whose block did
\* not fit the rings in one pass, with chunks processed
C27_Witness ==
    /\ impl.m_realtime
    /\ impl.m_channels = 2
    /\ pc = "process"
    /\ call.consumed[1] > 0
    /\ call.consumed[1] < call.samples
    /\ impl.m_channelData[1].chunkCount > 0


====
